---------------------------- MODULE Spec2Model ----------------------------
(***************************************************************************)
(* Model of the two scripts of deseq_from_python:                          *)
(*   de.py     loads a count matrix, and for every declared comparison     *)
(*             writes count.csv and cond.csv, runs the external engine,    *)
(*             reads de.csv back, then merges everything into de.csv;      *)
(*   de_ma.py  reads the merged de.csv and draws the MA plot.              *)
(* Counts are held in halves of a read (cell 3 stands for 1.5 reads), so   *)
(* that the rounding done before count.csv is written is a real            *)
(* conversion.  The p-values of de_ma.py are held in thousandths.          *)
(*                                                                         *)
(*   Spec     de.py over every list of comparisons                         *)
(*   SpecSel  de.py over every count matrix and minimum count              *)
(*   SpecMA   de_ma.py over every merged table                             *)
(***************************************************************************)
EXTENDS Integers, Sequences, FiniteSets, TLC

VARIABLES
    raw,        \* de.py: the table stored at path_count
    tests,      \* de.py: the declared comparisons
    min_count,  \* de.py: minimum read count per condition, in halves
    dcount,     \* de.py: the loaded count matrix
    de_data,    \* de.py: the tables collected for the merge
    fs,         \* the working directory: path -> file content
    pc,         \* de.py: the statement about to run
    i,          \* de.py: number of the comparison in progress (1-based)
    error,      \* de.py: the exception that ended the run, or "none"
    log,        \* history: the file and process events of de.py so far
    ma_pc,      \* de_ma.py: the statement about to run
    interactive,\* de_ma.py: what mpl.is_interactive() answers
    dds,        \* de_ma.py: the differential expression table
    sel_pvalue, \* de_ma.py: selector on the adjusted P-value
    sel_fc,     \* de_ma.py: selector on the fold change
    counts,     \* de_ma.py: sig_only, fc_only and sig_fc
    ax          \* de_ma.py: the axes: the plotted lines and the legend

deVars == <<raw, tests, min_count, dcount, de_data, pc, i, error, log>>
maVars == <<ma_pc, interactive, dds, sel_pvalue, sel_fc, counts, ax>>
vars == <<raw, tests, min_count, dcount, de_data, fs, pc, i, error, log,
          ma_pc, interactive, dds, sel_pvalue, sel_fc, counts, ax>>

---------------------------------------------------------------------------
\* Bounds of the model

\* largest cell of the stored count matrix, in halves of a read
MaxCell == 2
\* largest number of declared comparisons
MaxTests == 2
\* largest number of rows of the table de_ma.py reads
MaxRows == 2

---------------------------------------------------------------------------
\* Generic helpers

Range(s) == {s[k] : k \in 1..Len(s)}

RECURSIVE SeqsUpTo(_, _)
\* all sequences over S of length 0..n
SeqsUpTo(S, n) ==
    IF n = 0 THEN {<<>>}
    ELSE LET shorter == SeqsUpTo(S, n - 1)
         IN  shorter \cup {Append(s, x) : s \in {t \in shorter : Len(t) = n - 1}, x \in S}

\* s without the elements outside K, order kept
Keep(s, K) ==
    LET In(x) == x \in K
    IN  SelectSeq(s, In)

IsDuplicateFree(s) == \A j, k \in 1..Len(s) : s[j] = s[k] => j = k

---------------------------------------------------------------------------
\* de.py: parameters

path_count == "dev_timecourse_count.csv.xz"
p_adjust == "fdr"
col_sep == " "

\* Sample columns, metadata columns and gene identifiers of the stored table
Samples == {"s1", "s2", "s3"}
MetaColumns == <<"gene_name", "gene_length">>
Genes == {<<"ENSDAR", 1>>, <<"ENSDAR", 2>>}
Foreign == <<"ENSG", 1>>
StoredIndex == <<<<"ENSDAR", 1>>, Foreign, <<"ENSDAR", 2>>>>

\* The column orders the stored table may have
MetaFirstOrder == <<"gene_name", "gene_length", "s1", "s2", "s3">>
MixedOrder == <<"s3", "gene_length", "s2", "gene_name", "s1">>
ColumnOrders == {MetaFirstOrder, MixedOrder}

\* The comparisons a test list is drawn from: two well-formed comparisons
\* with different names, a third that shares its name with the first, and
\* one that names a sample the table does not have.
Comparisons ==
    { [name |-> "X", samples1 |-> <<"s1", "s2">>, samples2 |-> <<"s3">>],
      [name |-> "Y", samples1 |-> <<"s3">>, samples2 |-> <<"s2", "s1">>],
      [name |-> "X", samples1 |-> <<"s1">>, samples2 |-> <<"s2">>],
      [name |-> "Z", samples1 |-> <<"s1">>, samples2 |-> <<"s4">>] }

TestLists == SeqsUpTo(Comparisons, MaxTests)

Cells == 0..MaxCell
Thresholds == 0..(MaxCell + 1)

\* the count matrices over Genes x Samples with cells in C
Matrices(C) == [Genes -> [Samples -> C]]

\* The table stored at path_count: one row per gene of m, one foreign row,
\* the columns in order o.
StoredTable(m, o) ==
    [ index   |-> StoredIndex,
      columns |-> o,
      cell    |-> [g \in Range(StoredIndex) |->
                     [c \in Range(o) |->
                        IF c = "gene_name" THEN "name"
                        ELSE IF c = "gene_length" THEN 900
                        ELSE IF g \in Genes THEN m[g][c] ELSE MaxCell]] ]

---------------------------------------------------------------------------
\* Files

Paths == {"count.csv", "cond.csv", "de.csv", "de_ma.png"}
NoFile == [exists |-> FALSE]
File(t) == [exists |-> TRUE, table |-> t]

---------------------------------------------------------------------------
\* pandas / numpy operations used by de.py

\* str.startswith('ENSDAR') on a gene identifier
startswith_ENSDAR(g) == g[1] = "ENSDAR"

\* DataFrame.drop(labels, inplace=True): the rows not in labels
drop_rows(df, labels) ==
    [ index   |-> Keep(df.index, Range(df.index) \ labels),
      columns |-> df.columns,
      cell    |-> [g \in Range(df.index) \ labels |-> df.cell[g]] ]

\* whether df.loc[:, labels] raises KeyError
loc_raises(df, labels) == ~(Range(labels) \subseteq Range(df.columns))

\* a faulty variant of loc_columns: the frame's own column order is kept
loc_columns_frame_order(df, labels) ==
    [ index   |-> df.index,
      columns |-> Keep(df.columns, Range(labels)),
      cell    |-> [g \in Range(df.index) |-> [c \in Range(labels) |-> df.cell[g][c]]] ]

\* df.loc[:, labels]: the columns named by labels, in the order of labels
loc_columns(df, labels) ==
    [ index   |-> df.index,
      columns |-> labels,
      cell    |-> [g \in Range(df.index) |-> [c \in Range(labels) |-> df.cell[g][c]]] ]

\* df.loc[mask, :]: the rows where mask holds, in index order
loc_rows(df, mask) ==
    LET kept == {g \in Range(df.index) : mask[g]}
    IN  [ index   |-> Keep(df.index, kept),
          columns |-> df.columns,
          cell    |-> [g \in kept |-> df.cell[g]] ]

\* a faulty variant of np_any_ge: the comparison is turned round
np_any_le(df, t) ==
    [g \in Range(df.index) |-> \E c \in Range(df.columns) : df.cell[g][c] <= t]

\* np.any(df >= t, axis=1): per row, whether some cell reaches t
np_any_ge(df, t) ==
    [g \in Range(df.index) |-> \E c \in Range(df.columns) : df.cell[g][c] >= t]

\* np.all([m1, m2], axis=0): per row, whether both masks hold
np_all(m1, m2) == [g \in DOMAIN m1 |-> m1[g] /\ m2[g]]

\* round() of one cell held in halves: the nearest whole count, a half
\* going to the even neighbour
round_cell(c) ==
    LET q == c \div 2
    IN  IF c % 2 = 0 THEN q ELSE IF q % 2 = 0 THEN q ELSE q + 1

\* DataFrame.round()
round_frame(df) ==
    [ index   |-> df.index,
      columns |-> df.columns,
      cell    |-> [g \in Range(df.index) |->
                     [c \in Range(df.columns) |-> round_cell(df.cell[g][c])]] ]

\* a faulty variant of sel_count: one sample of either group reaching t is enough
sel_count_overall(dcount_cond, test, t) ==
    np_any_ge(dcount_cond, t)

\* Selection min_count per condition
sel_count(dcount_cond, test, t) ==
    np_all(np_any_ge(loc_columns(dcount_cond, test.samples1), t),
           np_any_ge(loc_columns(dcount_cond, test.samples2), t))

\* the table written to count.csv for test
count_table(df, test, t) ==
    LET dcount_cond == loc_columns(df, test.samples1 \o test.samples2)
    IN  round_frame(loc_rows(dcount_cond, sel_count(dcount_cond, test, t)))

\* the table written to cond.csv for test: the transposed two-row frame,
\* header '' and 'condition', no index
cond_table(test) ==
    LET names  == test.samples1 \o test.samples2
        labels == [k \in 1..Len(test.samples1) |-> "a"]
                      \o [k \in 1..Len(test.samples2) |-> "b"]
    IN  [ columns |-> <<"", "condition">>,
          rows    |-> [k \in 1..Len(names) |-> <<names[k], labels[k]>>] ]

\* a faulty variant of rename_column: the comparison's name is left out
rename_column_no_prefix(name, x) == col_sep \o x

\* the lambda of de.rename
rename_column(name, x) == name \o col_sep \o x

\* de.rename(columns=..., inplace=True)
rename(de, name) ==
    [de EXCEPT !.columns = [k \in 1..Len(de.columns) |-> rename_column(name, de.columns[k])]]

RECURSIVE intersect_indexes(_)
\* the combined index of an inner join: the first index, cut down by each
\* further one in turn, its order kept
intersect_indexes(frames) ==
    IF Len(frames) = 1 THEN frames[1].index
    ELSE Keep(intersect_indexes(SubSeq(frames, 1, Len(frames) - 1)),
              Range(frames[Len(frames)].index))

RECURSIVE union_indexes(_)
\* the combined index of an outer join
union_indexes(frames) ==
    IF Len(frames) = 1 THEN frames[1].index
    ELSE LET head == union_indexes(SubSeq(frames, 1, Len(frames) - 1))
             last == frames[Len(frames)].index
         IN  head \o Keep(last, Range(last) \ Range(head))

RECURSIVE concat_columns(_)
\* the columns of a concat along axis 1: every frame's columns, in turn
concat_columns(frames) ==
    IF Len(frames) = 0 THEN <<>>
    ELSE concat_columns(SubSeq(frames, 1, Len(frames) - 1)) \o frames[Len(frames)].columns

\* a faulty variant of concat_inner: join='outer', the default of pd.concat
concat_outer(frames) ==
    [index |-> union_indexes(frames), columns |-> concat_columns(frames)]

\* pd.concat(frames, join='inner', axis=1)
concat_inner(frames) ==
    [index |-> intersect_indexes(frames), columns |-> concat_columns(frames)]

---------------------------------------------------------------------------
\* The external engine (run_deseq.r), an opaque process

StatColumns == <<"baseMean", "log2FoldChange", "pvalue", "padj">>
ExitCodes == {0, 1}

\* the command line of subprocess.run
engine_argv ==
    <<"Rscript", "run_deseq.r", "count.csv", "cond.csv", "de.csv", p_adjust>>

\* The result tables the engine may write from a count file and a condition
\* file: a row for any of the genes of the count file, the statistic
\* columns, and the statistics, which stand here as the inputs they were
\* computed from.
EngineResults(count, cond) ==
    { [ index   |-> Keep(count.table.index, S),
        columns |-> StatColumns,
        stats   |-> <<count.table, cond.table>> ] : S \in SUBSET Range(count.table.index) }

\* a faulty variant of check_raises: check=False
check_never_raises(rc) == FALSE

\* subprocess.run(..., check=True): a non-zero exit raises CalledProcessError
check_raises(rc) == rc # 0

---------------------------------------------------------------------------
\* de.py: control

\* minimum read count per condition as de.py sets it, in whole reads
min_count_default == 1

\* a faulty variant of loop_body: the engine runs before cond.csv is written
loop_body_engine_first == <<"select", "engine", "cond", "read">>

\* the statements of the body of "for test in tests", in order
loop_body == <<"select", "cond", "engine", "read">>

Pos(step) == CHOOSE k \in 1..Len(loop_body) : loop_body[k] = step

\* <<statement, comparison>> that follows statement step of comparison k
after(step, k) ==
    IF Pos(step) < Len(loop_body) THEN <<loop_body[Pos(step) + 1], k>>
    ELSE IF k < Len(tests) THEN <<loop_body[1], k + 1>>
    ELSE <<"merge", k>>

Event(op, k, rc) == [op |-> op, test |-> k, rc |-> rc]

NoTable == [index |-> <<>>, columns |-> <<>>, cell |-> <<>>]

NoAxes == [lines |-> <<>>, legend |-> <<>>]

\* de_ma.py before it is started
MAIdle ==
    /\ ma_pc = "idle"
    /\ interactive = FALSE
    /\ dds = NoTable
    /\ sel_pvalue = <<>>
    /\ sel_fc = <<>>
    /\ counts = <<>>
    /\ ax = NoAxes

InitDe(Ms, Os, Ts, Ls) ==
    /\ raw \in {StoredTable(m, o) : m \in Ms, o \in Os}
    /\ min_count \in Ts
    /\ tests \in Ls
    /\ dcount = NoTable
    /\ de_data = <<>>
    /\ fs = [p \in Paths |-> NoFile]
    /\ pc = "load"
    /\ i = 0
    /\ error = "none"
    /\ log = <<>>

\* The pipeline over any list of comparisons, with the minimum count of
\* de.py and matrices whose cells are 0 or the largest cell
Init ==
    /\ InitDe(Matrices({0, MaxCell}), ColumnOrders, {2 * min_count_default}, TestLists)
    /\ MAIdle

\* The pipeline over any matrix and any minimum count, one comparison
InitSel ==
    /\ InitDe(Matrices(Cells), {MixedOrder}, Thresholds, {<<c>> : c \in Comparisons})
    /\ MAIdle

\* lines 37-41: open the time course, keep zebrafish, start de_data
Load ==
    /\ pc = "load"
    /\ dcount' = drop_rows(raw, {g \in Range(raw.index) : ~startswith_ENSDAR(g)})
    /\ de_data' = <<loc_columns(dcount', MetaColumns)>>
    /\ IF Len(tests) > 0
       THEN pc' = loop_body[1] /\ i' = 1
       ELSE pc' = "merge" /\ i' = 0
    /\ UNCHANGED <<raw, tests, min_count, fs, error, log, maVars>>

\* lines 44-48: select the samples and the genes, write count.csv
Select ==
    /\ pc = "select"
    /\ IF loc_raises(dcount, tests[i].samples1 \o tests[i].samples2)
       THEN /\ pc' = "failed"
            /\ error' = "KeyError"
            /\ UNCHANGED <<fs, log, i>>
       ELSE /\ fs' = [fs EXCEPT !["count.csv"] = File(count_table(dcount, tests[i], min_count))]
            /\ log' = Append(log, Event("count", i, 0))
            /\ pc' = after("select", i)[1]
            /\ i' = after("select", i)[2]
            /\ error' = error
    /\ UNCHANGED <<raw, tests, min_count, dcount, de_data, maVars>>

\* line 51: write cond.csv
WriteCond ==
    /\ pc = "cond"
    /\ fs' = [fs EXCEPT !["cond.csv"] = File(cond_table(tests[i]))]
    /\ log' = Append(log, Event("cond", i, 0))
    /\ pc' = after("cond", i)[1]
    /\ i' = after("cond", i)[2]
    /\ UNCHANGED <<raw, tests, min_count, dcount, de_data, error, maVars>>

\* line 54: run the engine and wait for it.  It ends with any exit code; it
\* cannot succeed without its two input files; when it succeeds it has
\* written a result table to its output path.
RunEngine ==
    /\ pc = "engine"
    /\ \E rc \in ExitCodes :
         LET count == fs[engine_argv[3]]
             cond  == fs[engine_argv[4]]
         IN  /\ (~count.exists \/ ~cond.exists) => rc # 0
             /\ IF rc = 0
                THEN \E out \in EngineResults(count, cond) :
                        fs' = [fs EXCEPT ![engine_argv[5]] = File(out)]
                ELSE fs' = fs
             /\ log' = Append(log, Event("engine", i, rc))
             /\ IF check_raises(rc)
                THEN pc' = "failed" /\ error' = "CalledProcessError" /\ i' = i
                ELSE pc' = after("engine", i)[1] /\ i' = after("engine", i)[2]
                     /\ error' = error
    /\ UNCHANGED <<raw, tests, min_count, dcount, de_data, maVars>>

\* lines 57-59: read de.csv back, rename its columns, collect it
ReadResult ==
    /\ pc = "read"
    /\ IF ~fs["de.csv"].exists
       THEN /\ pc' = "failed"
            /\ error' = "FileNotFoundError"
            /\ UNCHANGED <<de_data, log, i>>
       ELSE /\ de_data' = Append(de_data, rename(fs["de.csv"].table, tests[i].name))
            /\ log' = Append(log, Event("read", i, 0))
            /\ pc' = after("read", i)[1]
            /\ i' = after("read", i)[2]
            /\ error' = error
    /\ UNCHANGED <<raw, tests, min_count, dcount, fs, maVars>>

\* lines 62-63: merge and save
Merge ==
    /\ pc = "merge"
    /\ fs' = [fs EXCEPT !["de.csv"] = File(concat_inner(de_data))]
    /\ log' = Append(log, Event("merge", 0, 0))
    /\ pc' = "done"
    /\ UNCHANGED <<raw, tests, min_count, dcount, de_data, i, error, maVars>>

Next == Load \/ Select \/ WriteCond \/ RunEngine \/ ReadResult \/ Merge

Spec == Init /\ [][Next]_vars

SpecSel == InitSel /\ [][Next]_vars

---------------------------------------------------------------------------
\* de_ma.py: parameters

test_name == "X"
\* fold-change cutoff
cutoff_fc == 2
\* P-value cutoff, in thousandths (0.01)
cutoff_pvalue == 10
outext == ".png"

\* A statistic is a number or NaN
NaN == [nan |-> TRUE, v |-> 0]
Num(n) == [nan |-> FALSE, v |-> n]

PadjValues == {Num(1), Num(10), Num(500), NaN}
LfcValues == {Num(-3), Num(-2), Num(3), NaN}

MAColumns ==
    MetaColumns \o [k \in 1..Len(StatColumns) |-> test_name \o col_sep \o StatColumns[k]]

RowIds(n) == [k \in 1..n |-> <<"ENSDAR", k>>]

\* The merged tables de_ma.py is given: up to MaxRows genes, any adjusted
\* P-value and fold change of the value sets for each
MergedTables ==
    UNION { { [ index   |-> RowIds(n),
                columns |-> MAColumns,
                cell    |-> [g \in Range(RowIds(n)) |->
                               [c \in Range(MAColumns) |->
                                  IF c = test_name \o col_sep \o "padj" THEN padj[g]
                                  ELSE IF c = test_name \o col_sep \o "log2FoldChange" THEN lfc[g]
                                  ELSE Num(100)]] ]
              : padj \in [Range(RowIds(n)) -> PadjValues],
                lfc \in [Range(RowIds(n)) -> LfcValues] }
            : n \in 0..MaxRows }

---------------------------------------------------------------------------
\* pandas operations used by de_ma.py

\* dds[col]: one column, as index -> value
column(df, col) == [g \in Range(df.index) |-> df.cell[g][col]]

\* series < c, elementwise; a comparison with NaN is False
lt(series, c) == [g \in DOMAIN series |-> ~series[g].nan /\ series[g].v < c]

\* series > c, elementwise; a comparison with NaN is False
gt(series, c) == [g \in DOMAIN series |-> ~series[g].nan /\ series[g].v > c]

\* a faulty variant of abs: the sign is kept
abs_identity(series) == series

\* abs(series), elementwise; NaN stays NaN
abs(series) ==
    [g \in DOMAIN series |->
       IF series[g].nan THEN NaN
       ELSE IF series[g].v < 0 THEN Num(0 - series[g].v) ELSE series[g]]

\* m1 & m2 and ~m
and(m1, m2) == [g \in DOMAIN m1 |-> m1[g] /\ m2[g]]
not(m) == [g \in DOMAIN m |-> ~m[g]]

\* mask.sum()
sum(m) == Cardinality({g \in DOMAIN m : m[g]})

\* dds.loc[mask, col]: the values of col on the rows where mask holds
loc_mask(df, mask, col) ==
    LET idx == Keep(df.index, {g \in Range(df.index) : mask[g]})
    IN  [index |-> idx, values |-> [k \in 1..Len(idx) |-> df.cell[idx[k]][col]]]

\* np.log10 of one value, over the powers of ten the tables hold
log10_value(x) ==
    IF x.nan THEN NaN
    ELSE IF x.v = 1 THEN Num(0) ELSE IF x.v = 10 THEN Num(1) ELSE Num(2)

\* np.log10(series)
np_log10(series) ==
    [series EXCEPT !.values = [k \in 1..Len(series.values) |-> log10_value(series.values[k])]]

\* ax.plot(log10(dds.loc[mask, baseMean]), dds.loc[mask, log2FoldChange], '.', color)
plot(df, mask, color) ==
    [ x     |-> np_log10(loc_mask(df, mask, test_name \o col_sep \o "baseMean")),
      y     |-> loc_mask(df, mask, test_name \o col_sep \o "log2FoldChange"),
      color |-> color ]

---------------------------------------------------------------------------
\* de_ma.py: control

\* de.py is not running; de.csv holds a merged table
InitMA ==
    /\ raw = NoTable
    /\ tests = <<>>
    /\ min_count = 2 * min_count_default
    /\ dcount = NoTable
    /\ de_data = <<>>
    /\ pc = "done"
    /\ i = 0
    /\ error = "none"
    /\ log = <<>>
    /\ \E t \in MergedTables : fs = [p \in Paths |-> IF p = "de.csv" THEN File(t) ELSE NoFile]
    /\ ma_pc = "read"
    /\ interactive \in BOOLEAN
    /\ dds = NoTable
    /\ sel_pvalue = <<>>
    /\ sel_fc = <<>>
    /\ counts = <<>>
    /\ ax = NoAxes

\* line 20: open the differential expression table
MARead ==
    /\ ma_pc = "read"
    /\ fs["de.csv"].exists
    /\ dds' = fs["de.csv"].table
    /\ ma_pc' = "select"
    /\ UNCHANGED <<deVars, fs, interactive, sel_pvalue, sel_fc, counts, ax>>

\* lines 23-24: the selectors
MASelect ==
    /\ ma_pc = "select"
    /\ sel_pvalue' = lt(column(dds, test_name \o col_sep \o "padj"), cutoff_pvalue)
    /\ sel_fc' = gt(abs(column(dds, test_name \o col_sep \o "log2FoldChange")), cutoff_fc)
    /\ ma_pc' = "count"
    /\ UNCHANGED <<deVars, fs, interactive, dds, counts, ax>>

\* lines 27-29: the counts
MACount ==
    /\ ma_pc = "count"
    /\ counts' = [ sig_only |-> sum(and(sel_pvalue, not(sel_fc))),
                   fc_only  |-> sum(and(sel_fc, not(sel_pvalue))),
                   sig_fc   |-> sum(and(sel_fc, sel_pvalue)) ]
    /\ ma_pc' = "plot"
    /\ UNCHANGED <<deVars, fs, interactive, dds, sel_pvalue, sel_fc, ax>>

\* lines 32-42: the four series and the legend; a legend entry names the
\* line it stands for (p1[0], p2[0], p3[0] are lines 2, 3 and 4)
MAPlot ==
    /\ ma_pc = "plot"
    /\ ax' = [ lines  |-> << plot(dds, and(not(sel_fc), not(sel_pvalue)), "#b3b3b3"),
                             plot(dds, and(sel_pvalue, not(sel_fc)), "#b2df8a"),
                             plot(dds, and(sel_fc, not(sel_pvalue)), "#a6cee3"),
                             plot(dds, and(sel_fc, sel_pvalue), "#33a02c") >>,
               legend |-> << [line |-> 2, label |-> <<"Sig", counts.sig_only>>],
                             [line |-> 3, label |-> <<"FC", counts.fc_only>>],
                             [line |-> 4, label |-> <<"Sig+FC", counts.sig_fc>>] >> ]
    /\ ma_pc' = "save"
    /\ UNCHANGED <<deVars, fs, interactive, dds, sel_pvalue, sel_fc, counts>>

\* lines 44-45: save the figure unless the session is interactive
MASave ==
    /\ ma_pc = "save"
    /\ fs' = IF interactive = FALSE
             THEN [fs EXCEPT !["de_ma" \o outext] = File(ax)]
             ELSE fs
    /\ ma_pc' = "done"
    /\ UNCHANGED <<deVars, interactive, dds, sel_pvalue, sel_fc, counts, ax>>

NextMA == MARead \/ MASelect \/ MACount \/ MAPlot \/ MASave

SpecMA == InitMA /\ [][NextMA]_vars

---------------------------------------------------------------------------
\* Properties of the gene selection (checked under SpecSel)

\* the comparison whose op event is the latest in the log, 0 when none
LastTest(op) ==
    LET ks == {k \in 1..Len(log) : log[k].op = op}
    IN  IF ks = {} THEN 0 ELSE log[CHOOSE k \in ks : \A j \in ks : j <= k].test

\* the genes of dcount with a sample of group_a and a sample of group_b
\* reaching t
PassBoth(test, t) ==
    { g \in Range(dcount.index) :
        /\ \E s \in Range(test.samples1) : dcount.cell[g][s] >= t
        /\ \E s \in Range(test.samples2) : dcount.cell[g][s] >= t }

\* the genes sel_count selects in dcount for test at t
Selected(test, t) ==
    LET dcount_cond == loc_columns(dcount, test.samples1 \o test.samples2)
    IN  {g \in Range(dcount.index) : sel_count(dcount_cond, test, t)[g]}

\* the scenario of the specification: G1 [5,0|6,1], G2 [0,0|0,0],
\* G3 [2,3|0,0] over s1,s2 | s3,s4, in halves of a read
ExampleTest == [name |-> "E", samples1 |-> <<"s1", "s2">>, samples2 |-> <<"s3", "s4">>]
ExampleCounts ==
    [ index   |-> <<"G1", "G2", "G3">>,
      columns |-> <<"s1", "s2", "s3", "s4">>,
      cell    |-> [g \in {"G1", "G2", "G3"} |->
                     IF g = "G1" THEN [s1 |-> 10, s2 |-> 0, s3 |-> 12, s4 |-> 2]
                     ELSE IF g = "G2" THEN [s1 |-> 0, s2 |-> 0, s3 |-> 0, s4 |-> 0]
                     ELSE [s1 |-> 4, s2 |-> 6, s3 |-> 0, s4 |-> 0]] ]

\* C1: the genes written to count.csv for a comparison are exactly the
\* genes of the loaded matrix with at least one group_a sample at or above
\* the minimum count and at least one group_b sample at or above it; the
\* scenario of the specification selects exactly G1 at a minimum of 1 read.
C1_SelectedIffBothGroups ==
    /\ fs["count.csv"].exists =>
         Range(fs["count.csv"].table.index) = PassBoth(tests[LastTest("count")], min_count)
    /\ count_table(ExampleCounts, ExampleTest, 2).index = <<"G1">>

\* C1 witness: count.csv was written with one gene in it, and the other
\* gene reaches the minimum count in group_a only
C1_Witness ==
    /\ fs["count.csv"].exists
    /\ min_count > 0
    /\ Len(fs["count.csv"].table.index) = 1
    /\ \E g \in Range(dcount.index) :
         /\ g \notin Range(fs["count.csv"].table.index)
         /\ \E s \in Range(tests[1].samples1) : dcount.cell[g][s] >= min_count

\* C9: for the matrix and the comparison of a selection just made and all
\* minimum counts t1 <= t2, the genes selected at t2 are among those
\* selected at t1.
C9_SelectionMonotone ==
    pc = "cond" =>
      \A t1, t2 \in Thresholds :
        t1 <= t2 => Selected(tests[i], t2) \subseteq Selected(tests[i], t1)

\* C9 witness: count.csv was written at a minimum count that leaves out a
\* gene which a lower minimum count selects
C9_Witness ==
    /\ fs["count.csv"].exists
    /\ Range(fs["count.csv"].table.index) = Selected(tests[1], min_count)
    /\ \E t1 \in Thresholds :
         /\ t1 < min_count
         /\ Selected(tests[1], min_count) # Selected(tests[1], t1)
         /\ Selected(tests[1], min_count) # {}

---------------------------------------------------------------------------
\* Properties of the pipeline (checked under Spec)

\* the columns of the merged table of all declared comparisons
ExpectedColumns ==
    concat_columns([k \in 1..(Len(tests) + 1) |->
        IF k = 1 THEN [columns |-> MetaColumns]
        ELSE [columns |-> [j \in 1..Len(StatColumns) |->
                             tests[k - 1].name \o col_sep \o StatColumns[j]]]])

EngineFailedAt(k) == log[k].op = "engine" /\ log[k].rc # 0

\* C2: once the engine has exited non-zero for a comparison, nothing
\* follows: the run has failed, no file is written and no engine is started
\* for a later comparison, the failed comparison's result is not read back
\* and the merge is not executed.
C2_EngineFailureAborts ==
    \A k \in 1..Len(log) :
      EngineFailedAt(k) =>
        /\ k = Len(log)
        /\ pc = "failed"
        /\ error = "CalledProcessError"
        /\ Len(de_data) = log[k].test

\* C2 witness: the engine failed for the first of two comparisons
C2_Witness ==
    /\ Len(tests) = 2
    /\ Len(log) > 0
    /\ EngineFailedAt(Len(log))
    /\ log[Len(log)].test = 1
    /\ pc = "failed"

\* C3 (as claimed): after a run that ended in a fatal error, de.csv is
\* absent or holds the complete merged table of all declared comparisons.
C3_NoPartialOutputAtFinalPath ==
    pc = "failed" =>
      \/ ~fs["de.csv"].exists
      \/ fs["de.csv"].table.columns = ExpectedColumns

\* C4: while cond.csv and count.csv are those of the same comparison, the
\* rows of cond.csv are the group_a samples labelled a followed by the
\* group_b samples labelled b, and row k names the k-th sample column of
\* count.csv.
C4_ConditionRowsMatchCountColumns ==
    (fs["cond.csv"].exists /\ LastTest("cond") = LastTest("count")) =>
      LET test  == tests[LastTest("cond")]
          names == test.samples1 \o test.samples2
          rows  == fs["cond.csv"].table.rows
          cols  == fs["count.csv"].table.columns
      IN  /\ Len(rows) = Len(names)
          /\ Len(cols) = Len(rows)
          /\ \A k \in 1..Len(rows) :
               /\ rows[k][1] = names[k]
               /\ rows[k][2] = (IF k <= Len(test.samples1) THEN "a" ELSE "b")
               /\ rows[k][1] = cols[k]

\* C4 witness: the engine is about to run on files whose sample order is
\* not the order of the sample columns of the stored table
C4_Witness ==
    /\ pc = "engine"
    /\ fs["cond.csv"].exists
    /\ Len(fs["count.csv"].table.columns) = 3
    /\ fs["count.csv"].table.columns # Keep(raw.columns, Samples)

\* f may directly follow e in the log
Follows(e, f) ==
    \/ e.op = "count" /\ f = Event("cond", e.test, 0)
    \/ e.op = "cond" /\ f.op = "engine" /\ f.test = e.test
    \/ e.op = "engine" /\ f = Event("read", e.test, 0)
    \/ e.op = "read" /\ f \in {Event("count", e.test + 1, 0), Event("merge", 0, 0)}

\* C5: the events of a run come in the order count file, condition file,
\* engine, read back, comparison after comparison, the read of comparison k
\* before any write of comparison k+1; and the table collected for
\* comparison k holds the statistics the engine computed from comparison
\* k's own count and condition files.
C5_SequentialOverSharedFiles ==
    /\ Len(log) > 0 => log[1] \in {Event("count", 1, 0), Event("merge", 0, 0)}
    /\ \A k \in 1..(Len(log) - 1) : Follows(log[k], log[k + 1])
    /\ \A k \in 2..Len(de_data) :
         de_data[k].stats = << count_table(dcount, tests[k - 1], min_count),
                               cond_table(tests[k - 1]) >>

\* C5 witness: two comparisons were collected, from different files
C5_Witness ==
    /\ Len(de_data) = 3
    /\ de_data[2].stats # de_data[3].stats

Perms(n) == {f \in [1..n -> 1..n] : \A j, k \in 1..n : f[j] = f[k] => j = k}

\* the scenario of the specification: X has G1, G2 and Y has G2, G3
ExampleFrames ==
    << [index |-> <<"G1", "G2", "G3">>, columns |-> MetaColumns],
       [index |-> <<"G1", "G2">>, columns |-> <<"X padj">>],
       [index |-> <<"G2", "G3">>, columns |-> <<"Y padj">>] >>

\* C6: the genes of the merged table are exactly the genes of the metadata
\* table that are in every comparison's result table, whatever the order
\* the tables are joined in; X with G1, G2 and Y with G2, G3 gives G2 alone.
C6_MergedGenesAreIntersection ==
    /\ pc = "done" =>
         LET common == {g \in Range(de_data[1].index) :
                          \A k \in 2..Len(de_data) : g \in Range(de_data[k].index)}
         IN  /\ Range(fs["de.csv"].table.index) = common
             /\ \A f \in Perms(Len(de_data)) :
                  Range(concat_inner([k \in 1..Len(de_data) |-> de_data[f[k]]]).index) = common
    /\ concat_inner(ExampleFrames).index = <<"G2">>

\* C6 witness: a merge of two comparisons, one of which lacks a gene the
\* other has, with a gene left
C6_Witness ==
    /\ pc = "done"
    /\ Len(de_data) = 3
    /\ Range(de_data[2].index) \ Range(de_data[3].index) # {}
    /\ fs["de.csv"].table.index # <<>>

NamesDistinct == \A j, k \in 1..Len(tests) : tests[j].name = tests[k].name => j = k

\* C7 (as claimed): the merged table has no duplicate column names, for any
\* list of declared comparisons.
C7_NoDuplicateColumns ==
    pc = "done" => IsDuplicateFree(fs["de.csv"].table.columns)

\* C7 (amended): the merged table has no duplicate column names, for any
\* list of declared comparisons whose names are pairwise distinct.
C7_NoDuplicateColumnsDistinctNames ==
    (pc = "done" /\ NamesDistinct) => IsDuplicateFree(fs["de.csv"].table.columns)

\* C7 witness: a merge of two comparisons with different names
C7_Witness ==
    /\ pc = "done"
    /\ Len(tests) = 2
    /\ NamesDistinct
    /\ Len(fs["de.csv"].table.columns) = Len(MetaColumns) + 2 * Len(StatColumns)

\* C8 (as claimed): a run whose join leaves no gene ends in a MergeError:
\* it does not complete with an empty merged table written to de.csv.
C8_EmptyJoinIsMergeError ==
    (pc \in {"done", "failed"} /\ Len(log) > 0 /\ log[Len(log)].op = "merge"
       /\ concat_inner(de_data).index = <<>>) =>
      (pc = "failed" /\ error = "MergeError" /\ fs["de.csv"] # File(concat_inner(de_data)))

---------------------------------------------------------------------------
\* Properties of the MA plot (checked under SpecMA)

\* significant: padj < p_cutoff
Significant(g) ==
    LET padj == dds.cell[g][test_name \o col_sep \o "padj"]
    IN  ~padj.nan /\ padj.v < cutoff_pvalue

\* large_fc: |log2FoldChange| > fc_cutoff
LargeFc(g) ==
    LET lfc == dds.cell[g][test_name \o col_sep \o "log2FoldChange"]
    IN  ~lfc.nan /\ (lfc.v > cutoff_fc \/ 0 - lfc.v > cutoff_fc)

\* the plotted line a gene belongs to: 1 neither, 2 significant only,
\* 3 large fold change only, 4 both
Category(g) ==
    IF Significant(g) THEN (IF LargeFc(g) THEN 4 ELSE 2)
    ELSE (IF LargeFc(g) THEN 3 ELSE 1)

\* the genes of plotted line n
Series(n) == Range(ax.lines[n].y.index)

\* C10: once the plot is drawn, every gene of the table is in exactly one of
\* the four plotted series, the one its two predicates name; the series are
\* pairwise disjoint and together are all the genes; and the three legend
\* counts are the sizes of the significant-only, large-fc-only and both
\* series.
C10_FourDisjointCategories ==
    ma_pc \in {"save", "done"} =>
      /\ Len(ax.lines) = 4
      /\ \A g \in Range(dds.index) : \A n \in 1..4 : g \in Series(n) <=> n = Category(g)
      /\ \A m, n \in 1..4 : m # n => Series(m) \cap Series(n) = {}
      /\ UNION {Series(n) : n \in 1..4} = Range(dds.index)
      /\ \A n \in 1..4 : /\ IsDuplicateFree(ax.lines[n].y.index)
                         /\ ax.lines[n].x.index = ax.lines[n].y.index
      /\ [k \in 1..Len(ax.legend) |-> ax.legend[k].line] = <<2, 3, 4>>
      /\ \A k \in 1..Len(ax.legend) :
           ax.legend[k].label[2] = Cardinality(Series(ax.legend[k].line))

\* C10 witness: padj = [0.001, 0.5] and log2FoldChange = [3, 3] were
\* plotted: the first gene is in "both", the second in "large-fc-only"
C10_Witness ==
    /\ ma_pc = "done"
    /\ Len(dds.index) = 2
    /\ [k \in 1..2 |-> dds.cell[dds.index[k]][test_name \o col_sep \o "padj"]]
         = <<Num(1), Num(500)>>
    /\ [k \in 1..2 |-> dds.cell[dds.index[k]][test_name \o col_sep \o "log2FoldChange"]]
         = <<Num(3), Num(3)>>
    /\ ax.lines[4].y.index = <<dds.index[1]>>
    /\ ax.lines[3].y.index = <<dds.index[2]>>
    /\ ax.legend[2].label = <<"FC", 1>>
    /\ ax.legend[3].label = <<"Sig+FC", 1>>

===========================================================================
